---- MODULE Spec2Model ----
(***************************************************************************)
(* The Telemarketing dashboard of src/app_7.py: load_data, the sidebar     *)
(* form, the filter pipeline, calculate_percentage and to_excel.           *)
(*                                                                         *)
(* A DataFrame is a record [index, columns, data]: the row labels, the     *)
(* column names in order, and one row per label, a function from column    *)
(* name to cell.  A cell is NA (a missing value, pandas' NaN) or Cell(v).  *)
(* An age is [int, frac]: whole years and a number of half years (0 or 1), *)
(* so that 26.5 is [int |-> 26, frac |-> 1] and int() truncates.           *)
(* A percentage is the exact rational [num, den].                          *)
(*                                                                         *)
(* Spec        one run of main() on an uploaded file and widget values.    *)
(* SessionSpec a browser session: upload, form edits, submit, downloads,   *)
(*             every rerun being one whole run of main().                  *)
(* The chart section (lines 179-221) only renders and is left out.         *)
(***************************************************************************)
EXTENDS Integers, Sequences, FiniteSets, TLC

VARIABLES
    file,           \* the uploaded file (st.sidebar.file_uploader), or NoFile
    age_range,      \* the slider value the script sees
    selected,       \* the multiselect values the script sees, per column
    pending_range,  \* the slider as shown in the browser, not yet submitted
    pending_sel,    \* the multiselects as shown in the browser
    apply_filters,  \* what st.form_submit_button returned in the last run
    pc,             \* where the last run of main() ended
    error,          \* the exception that ended it, or "none"
    attempts,       \* the parsers load_data called, in order
    bank_raw,       \* the loaded table
    steps,          \* the table after query and after each .pipe
    bank,           \* the filtered table
    raw_perc,       \* calculate_percentage(bank_raw)
    filtered_perc,  \* calculate_percentage(bank)
    downloads       \* the data= of the three download buttons

widgets == <<age_range, selected>>
pending == <<pending_range, pending_sel>>
outputs == <<pc, error, attempts, bank_raw, steps, bank, raw_perc,
             filtered_perc, downloads>>
vars == <<file, age_range, selected, pending_range, pending_sel,
          apply_filters, pc, error, attempts, bank_raw, steps, bank,
          raw_perc, filtered_perc, downloads>>

---------------------------------------------------------------------------
(* Bounds of the model. *)

MaxRows == 2

---------------------------------------------------------------------------
(* Values. *)

Range(s) == {s[i] : i \in DOMAIN s}

NA == <<>>
Cell(v) == <<v>>
IsNA(c) == c = NA
Value(c) == c[1]

Age(years, halves) == [int |-> years, frac |-> halves]
\* a >= n and a <= n for an age a and an integer n
AgeGE(a, n) == a.int >= n
AgeLE(a, n) == a.int < n \/ (a.int = n /\ a.frac = 0)
AgeLess(a, b) == a.int < b.int \/ (a.int = b.int /\ a.frac < b.frac)
\* Python's int() of a non-negative float
int(a) == a.int

\* Python's order on the strings of column y
SortedStrings == <<"no", "yes">>
StrIndex(s) == CHOOSE i \in DOMAIN SortedStrings : SortedStrings[i] = s
StrLess(a, b) == StrIndex(a) < StrIndex(b)

\* the order of the column names reset_index() makes up
StrLess2(a, b) ==
    LET names == <<"index", "level_0", "level_1", "level_2">>
        at(x) == CHOOSE i \in DOMAIN names : names[i] = x
    IN  at(a) < at(b)

\* a rational count / total, and its product with an integer
Ratio(n, d) == [num |-> n, den |-> d]
RatioMul(r, k) == [num |-> r.num * k, den |-> r.den]

---------------------------------------------------------------------------
(* Tables. *)

CatCols == <<"job", "marital", "default", "housing", "loan", "contact",
             "month", "day_of_week">>
BankColumns == <<"age">> \o CatCols \o <<"y">>
NoYColumns == <<"age">> \o CatCols

\* the columns the modelled rows do not vary in
FixedValue(c) ==
    CASE c = "marital" -> "married"
      [] c = "default" -> "no"
      [] c = "housing" -> "yes"
      [] c = "loan" -> "no"
      [] c = "contact" -> "cellular"
      [] c = "month" -> "may"

BankRow(age, job, day, y) ==
    [c \in Range(BankColumns) |->
        CASE c = "age" -> age
          [] c = "job" -> Cell(job)
          [] c = "day_of_week" -> Cell(day)
          [] c = "y" -> y
          [] OTHER -> Cell(FixedValue(c))]

\* the rows uploaded tables are built from
Pool ==
    { BankRow(Cell(Age(25, 0)), "admin.", "mon", Cell("yes")),
      BankRow(Cell(Age(26, 0)), "blue-collar", "tue", Cell("no")),
      BankRow(Cell(Age(26, 1)), "admin.", "tue", Cell("no")),
      BankRow(NA, "blue-collar", "mon", Cell("yes")),
      BankRow(Cell(Age(25, 0)), "blue-collar", "mon", NA) }

Tables == UNION {[1..n -> Pool] : n \in 0..MaxRows}

Project(row, cols) == [c \in Range(cols) |-> row[c]]

NoFile == [kind |-> "none", columns |-> <<>>, data |-> <<>>]
Files ==
    {[kind |-> "bad", columns |-> <<>>, data |-> <<>>]}
    \cup
    {[kind |-> k, columns |-> cols,
      data |-> [i \in DOMAIN t |-> Project(t[i], cols)]] :
        k \in {"csv", "xlsx"}, cols \in {BankColumns, NoYColumns}, t \in Tables}

---------------------------------------------------------------------------
(* pandas. *)

RangeIndex(n) == [i \in 1..n |-> i - 1]
DataFrame(idx, cols, rows) == [index |-> idx, columns |-> cols, data |-> rows]
NoFrame == DataFrame(<<>>, <<>>, <<>>)
\* DataFrame.empty: some axis has length 0
empty(df) == Len(df.index) = 0 \/ Len(df.columns) = 0

\* df[mask]: the rows the boolean series mask is True at, with their labels
boolean_mask(df, mask) ==
    LET kept == SelectSeq([i \in 1..Len(df.data) |-> i], LAMBDA i : mask[i])
    IN  DataFrame([k \in 1..Len(kept) |-> df.index[kept[k]]],
                  df.columns,
                  [k \in 1..Len(kept) |-> df.data[kept[k]]])

reset_index(df) == DataFrame(RangeIndex(Len(df.data)), df.columns, df.data)

column(df, c) == [i \in DOMAIN df.data |-> df.data[i][c]]

\* Series.isin(values): a boolean per row, False at a missing value
isin(cells, values) ==
    [i \in DOMAIN cells |-> ~IsNA(cells[i]) /\ Value(cells[i]) \in values]

\* query with an exclusive upper bound
query_exclusive(df, lo, hi) ==
    boolean_mask(df, [i \in DOMAIN df.data |->
                        LET age == df.data[i]["age"]
                        IN  /\ ~IsNA(age)
                            /\ AgeGE(Value(age), lo)
                            /\ AgeLE(Value(age), hi)
                            /\ Value(age) # Age(hi, 0)])

\* df.query("age >= @lo and age <= @hi"): a comparison with NaN is False
query(df, lo, hi) ==
    boolean_mask(df, [i \in DOMAIN df.data |->
                        LET age == df.data[i]["age"]
                        IN  /\ ~IsNA(age)
                            /\ AgeGE(Value(age), lo)
                            /\ AgeLE(Value(age), hi)])

\* Series.min() and Series.max() skip NaN
present_ages(df) ==
    {Value(df.data[i]["age"]) : i \in {j \in DOMAIN df.data : ~IsNA(df.data[j]["age"])}}
age_min(df) ==
    CHOOSE a \in present_ages(df) : \A b \in present_ages(df) : ~AgeLess(b, a)
age_max(df) ==
    CHOOSE a \in present_ages(df) : \A b \in present_ages(df) : ~AgeLess(a, b)

RECURSIVE unique(_)
\* the distinct present values of a sequence of cells, by first appearance
unique(cells) ==
    IF cells = <<>> THEN <<>>
    ELSE LET n == Len(cells)
             u == unique(SubSeq(cells, 1, n - 1))
         IN  IF IsNA(cells[n]) \/ Value(cells[n]) \in Range(u)
             THEN u ELSE Append(u, Value(cells[n]))

count(cells, v) == Cardinality({i \in DOMAIN cells : cells[i] = Cell(v)})
present(cells) == Cardinality({i \in DOMAIN cells : ~IsNA(cells[i])})

\* Series.value_counts(normalize=True): NaN dropped, each count divided by
\* the number of present values, most frequent first
\* value_counts(normalize=True, dropna=False) would divide by every row
value_counts_total_all_rows(cells) == Len(cells)
value_counts_total(cells) == present(cells)
value_counts(cells) ==
    LET u == unique(cells)
        before(i, j) == \/ count(cells, u[i]) > count(cells, u[j])
                        \/ (count(cells, u[i]) = count(cells, u[j]) /\ i < j)
        place(i) == 1 + Cardinality({j \in DOMAIN u : before(j, i)})
        at(p) == CHOOSE i \in DOMAIN u : place(i) = p
    IN  [index |-> [p \in DOMAIN u |-> u[at(p)]],
         values |-> [p \in DOMAIN u |->
                        Ratio(count(cells, u[at(p)]), value_counts_total(cells))]]

mul(series, k) ==
    [index |-> series.index,
     values |-> [p \in DOMAIN series.values |-> RatioMul(series.values[p], k)]]

to_frame(series, name) ==
    DataFrame(series.index, <<name>>,
              [p \in DOMAIN series.values |->
                  [c \in {name} |-> Cell(series.values[p])]])

\* DataFrame.sort_index(): rows by ascending label (the labels are distinct)
sort_index(df) ==
    LET place(i) == 1 + Cardinality({j \in DOMAIN df.index :
                                        StrLess(df.index[j], df.index[i])})
        at(p) == CHOOSE i \in DOMAIN df.index : place(i) = p
    IN  DataFrame([p \in DOMAIN df.index |-> df.index[at(p)]],
                  df.columns,
                  [p \in DOMAIN df.index |-> df.data[at(p)]])

\* pd.read_csv(file_data, sep=";") and pd.read_excel(file_data)
read_csv(f) ==
    [ok |-> f.kind = "csv",
     frame |-> IF f.kind = "csv"
               THEN DataFrame(RangeIndex(Len(f.data)), f.columns, f.data)
               ELSE NoFrame]
read_excel(f) ==
    [ok |-> f.kind = "xlsx",
     frame |-> IF f.kind = "xlsx"
               THEN DataFrame(RangeIndex(Len(f.data)), f.columns, f.data)
               ELSE NoFrame]

\* df.to_excel(writer, index=False): a header row and the cells by column
\* position; labels are the written index column, none with index=False
DataFrame_to_excel(df, index) ==
    [header |-> df.columns,
     labels |-> IF index THEN df.index ELSE <<>>,
     cells |-> [i \in DOMAIN df.data |->
                  [j \in DOMAIN df.columns |-> df.data[i][df.columns[j]]]]]
NoSheet == [header |-> <<>>, labels |-> <<>>, cells |-> <<>>]

\* reading a sheet back: a fresh RangeIndex, the header as the columns
parse_sheet(sheet) ==
    DataFrame(RangeIndex(Len(sheet.cells)), sheet.header,
              [i \in DOMAIN sheet.cells |->
                  [c \in Range(sheet.header) |->
                      sheet.cells[i][CHOOSE j \in DOMAIN sheet.header :
                                        sheet.header[j] = c]]])

---------------------------------------------------------------------------
(* The functions of app_7.py. *)

\* load_data without the except branch
load_data_no_fallback(f) ==
    [attempts |-> <<"read_csv">>, ok |-> read_csv(f).ok, frame |-> read_csv(f).frame]

\* try read_csv, and on any exception read_excel, whose exception propagates
load_data(f) ==
    LET csv == read_csv(f)
        xls == read_excel(f)
    IN  IF csv.ok
        THEN [attempts |-> <<"read_csv">>, ok |-> TRUE, frame |-> csv.frame]
        ELSE [attempts |-> <<"read_csv", "read_excel">>, ok |-> xls.ok,
              frame |-> xls.frame]

\* multiselect_filter taking an empty selection for "no filter"
multiselect_filter_empty_is_all(df, col, sel) ==
    IF "all" \in sel \/ sel = {}
    THEN df
    ELSE reset_index(boolean_mask(df, isin(column(df, col), sel)))

\* multiselect_filter with reset_index() for reset_index(drop=True): the old
\* labels come back as a new first column
multiselect_filter_keep_index(df, col, sel) ==
    IF "all" \in sel
    THEN df
    ELSE LET m == boolean_mask(df, isin(column(df, col), sel))
             name == CHOOSE n \in {"index", "level_0", "level_1", "level_2"} :
                        /\ n \notin Range(m.columns)
                        /\ \A o \in Range(m.columns) \cap
                                {"index", "level_0", "level_1", "level_2"} :
                              StrLess2(o, n)
         IN  DataFrame(RangeIndex(Len(m.data)), <<name>> \o m.columns,
                       [i \in DOMAIN m.data |->
                          [c \in Range(m.columns) \cup {name} |->
                              IF c = name THEN Cell(m.index[i]) ELSE m.data[i][c]]])

\* multiselect_filter handing the rows back in descending order
multiselect_filter_reversed(df, col, sel) ==
    LET m == IF "all" \in sel THEN df
             ELSE boolean_mask(df, isin(column(df, col), sel))
        n == Len(m.data)
    IN  DataFrame(RangeIndex(n), m.columns, [i \in 1..n |-> m.data[n + 1 - i]])

multiselect_filter(df, col, sel) ==
    IF "all" \in sel
    THEN df
    ELSE reset_index(boolean_mask(df, isin(column(df, col), sel)))

to_excel(df) == DataFrame_to_excel(df, FALSE)

EmptyPercentual == DataFrame(<<>>, <<"Percentual">>, <<>>)

\* raised: df["y"] is a KeyError when the table has no column y
calculate_percentage(df) ==
    IF empty(df)
    THEN [raised |-> FALSE, frame |-> EmptyPercentual]
    ELSE IF "y" \notin Range(df.columns)
    THEN [raised |-> TRUE, frame |-> NoFrame]
    ELSE [raised |-> FALSE,
          frame |-> sort_index(to_frame(mul(value_counts(column(df, "y")), 100),
                                        "Percentual"))]

---------------------------------------------------------------------------
(* The sidebar form. *)

NoRange == <<>>
\* int(bank.age.min()) raises ValueError when no age is present
slider_ok(df) == present_ages(df) # {}
min_age(df) == int(age_min(df))
max_age(df) == int(age_max(df))
DefaultRange(df) == <<min_age(df), max_age(df)>>
SliderValues(df) ==
    {r \in (min_age(df)..max_age(df)) \X (min_age(df)..max_age(df)) :
        r[1] <= r[2]}

\* create_multiselect: the column's values and "all", default ["all"]
Options(df, col) == Range(unique(column(df, col))) \cup {"all"}
DefaultSel == [c \in Range(CatCols) |-> {"all"}]

\* the multiselects the modelled user edits; the others keep their default
EditedCols == {"job", "day_of_week"}
SessionEditedCols == {"job"}

Selections(df, cols) ==
    LET all == UNION {Options(df, c) : c \in cols}
    IN  {[c \in Range(CatCols) |-> IF c \in cols THEN g[c] ELSE {"all"}] :
            g \in {h \in [cols -> SUBSET all] :
                      \A c \in cols : h[c] \subseteq Options(df, c)}}

\* whether a run on file f gets as far as rendering the form
form_rendered(f) ==
    f # NoFile /\ load_data(f).ok /\ slider_ok(load_data(f).frame)

---------------------------------------------------------------------------
(* main(): one run of the script. *)

RECURSIVE pipe(_, _, _)
\* the tables after the k-th and later .pipe(multiselect_filter, ...) calls
pipe(df, sel, k) ==
    IF k > Len(CatCols) THEN <<>>
    ELSE LET next == multiselect_filter(df, CatCols[k], sel[CatCols[k]])
         IN  <<next>> \o pipe(next, sel, k + 1)

\* lines 109-119: the table after query and after each pipe
apply_pipeline(df, range, sel) ==
    LET q == query(df, range[1], range[2])
    IN  <<q>> \o pipe(q, sel, 1)

NoDownloads ==
    [bank_filtered |-> NoSheet, bank_raw_y |-> NoSheet, bank_filtered_y |-> NoSheet]

Out(at, err, tried, raw, stages, filtered, rperc, fperc, dl) ==
    [pc |-> at, error |-> err, attempts |-> tried, bank_raw |-> raw,
     steps |-> stages, bank |-> filtered, raw_perc |-> rperc,
     filtered_perc |-> fperc, downloads |-> dl]

main(f, range, sel) ==
    IF f = NoFile
    THEN Out("info", "none", <<>>, NoFrame, <<>>, NoFrame, NoFrame, NoFrame,
             NoDownloads)
    ELSE
    LET loaded == load_data(f) IN
    IF ~loaded.ok
    THEN Out("load_data", "LoadError", loaded.attempts, NoFrame, <<>>, NoFrame,
             NoFrame, NoFrame, NoDownloads)
    ELSE
    LET raw == loaded.frame IN
    IF ~slider_ok(raw)
    THEN Out("slider", "ValueError", loaded.attempts, raw, <<>>, NoFrame,
             NoFrame, NoFrame, NoDownloads)
    ELSE
    LET stages == apply_pipeline(raw, range, sel)
        filtered == stages[Len(stages)]
        rperc == calculate_percentage(raw)
        fperc == calculate_percentage(filtered)
    IN
    IF rperc.raised \/ fperc.raised
    THEN Out(IF rperc.raised THEN "raw_perc" ELSE "filtered_perc", "KeyError",
             loaded.attempts, raw, stages, filtered,
             IF rperc.raised THEN NoFrame ELSE rperc.frame, NoFrame,
             [NoDownloads EXCEPT !.bank_filtered = to_excel(filtered)])
    ELSE Out("done", "none", loaded.attempts, raw, stages, filtered,
             rperc.frame, fperc.frame,
             [bank_filtered |-> to_excel(filtered),
              bank_raw_y |-> to_excel(rperc.frame),
              bank_filtered_y |-> to_excel(fperc.frame)])

\* the variables a run of main() sets
Run(f, range, sel) ==
    \E o \in {main(f, range, sel)} :
        /\ pc' = o.pc
        /\ error' = o.error
        /\ attempts' = o.attempts
        /\ bank_raw' = o.bank_raw
        /\ steps' = o.steps
        /\ bank' = o.bank
        /\ raw_perc' = o.raw_perc
        /\ filtered_perc' = o.filtered_perc
        /\ downloads' = o.downloads

NotRun ==
    /\ error = "none"
    /\ attempts = <<>>
    /\ bank_raw = NoFrame
    /\ steps = <<>>
    /\ bank = NoFrame
    /\ raw_perc = NoFrame
    /\ filtered_perc = NoFrame
    /\ downloads = NoDownloads

---------------------------------------------------------------------------
(* Spec: one run of main() on any file and any values of the widgets.      *)

WidgetStates(f) ==
    IF form_rendered(f)
    THEN SliderValues(load_data(f).frame)
            \X Selections(load_data(f).frame, EditedCols)
    ELSE {<<NoRange, DefaultSel>>}

Init ==
    /\ file \in Files
    /\ \E w \in WidgetStates(file) : age_range = w[1] /\ selected = w[2]
    /\ pending_range = age_range
    /\ pending_sel = selected
    /\ apply_filters = FALSE
    /\ pc = "start"
    /\ NotRun

Main ==
    /\ pc = "start"
    /\ Run(file, age_range, selected)
    /\ UNCHANGED <<file, widgets, pending, apply_filters>>

Next == Main

Spec == Init /\ [][Next]_vars

---------------------------------------------------------------------------
(* SessionSpec: a session.  The widgets of the form keep their edits in    *)
(* the browser until the form is submitted; every other event reruns the   *)
(* script with the values last submitted.                                  *)

\* the files of a session: an unreadable one, or a semicolon CSV of the bank
SessionFiles ==
    {f \in Files : f.kind = "bad" \/ (f.kind = "csv" /\ f.columns = BankColumns)}

SessionInit ==
    /\ file = NoFile
    /\ age_range = NoRange
    /\ selected = DefaultSel
    /\ pending_range = NoRange
    /\ pending_sel = DefaultSel
    /\ apply_filters = FALSE
    /\ pc = "info"
    /\ NotRun

\* the widgets of a run that has not seen them before show their defaults
DefaultWidgets(f) ==
    IF form_rendered(f)
    THEN <<DefaultRange(load_data(f).frame), DefaultSel>>
    ELSE <<NoRange, DefaultSel>>

Upload(f) ==
    /\ file = NoFile
    /\ file' = f
    /\ age_range' = DefaultWidgets(f)[1]
    /\ selected' = DefaultWidgets(f)[2]
    /\ pending_range' = DefaultWidgets(f)[1]
    /\ pending_sel' = DefaultWidgets(f)[2]
    /\ apply_filters' = FALSE
    /\ Run(f, DefaultWidgets(f)[1], DefaultWidgets(f)[2])

RemoveFile ==
    /\ file # NoFile
    /\ file' = NoFile
    /\ age_range' = NoRange
    /\ selected' = DefaultSel
    /\ pending_range' = NoRange
    /\ pending_sel' = DefaultSel
    /\ apply_filters' = FALSE
    /\ Run(NoFile, NoRange, DefaultSel)

MoveSlider(r) ==
    /\ form_rendered(file)
    /\ pending_range' = r
    /\ UNCHANGED <<file, widgets, pending_sel, apply_filters, outputs>>

\* a multiselect outside the form: every edit is sent and reruns the script
PickMultiselect_outside_form(c, sel) ==
    /\ form_rendered(file)
    /\ pending_sel' = [pending_sel EXCEPT ![c] = sel]
    /\ selected' = [selected EXCEPT ![c] = sel]
    /\ apply_filters' = FALSE
    /\ Run(file, age_range, [selected EXCEPT ![c] = sel])
    /\ UNCHANGED <<file, age_range, pending_range>>

PickMultiselect(c, sel) ==
    /\ form_rendered(file)
    /\ pending_sel' = [pending_sel EXCEPT ![c] = sel]
    /\ UNCHANGED <<file, widgets, pending_range, apply_filters, outputs>>

Submit ==
    /\ form_rendered(file)
    /\ age_range' = pending_range
    /\ selected' = pending_sel
    /\ apply_filters' = TRUE
    /\ Run(file, pending_range, pending_sel)
    /\ UNCHANGED <<file, pending>>

\* a download button is outside the form: its click reruns the script
ClickDownload ==
    /\ form_rendered(file)
    /\ apply_filters' = FALSE
    /\ Run(file, age_range, selected)
    /\ UNCHANGED <<file, widgets, pending>>

\* the values the slider of the rendered form can be moved to
SliderChoices == IF form_rendered(file) THEN SliderValues(bank_raw) ELSE {}

SessionNext ==
    \/ \E f \in SessionFiles : Upload(f)
    \/ RemoveFile
    \/ \E r \in SliderChoices : MoveSlider(r)
    \/ \E c \in SessionEditedCols : \E sel \in SUBSET Options(bank_raw, c) :
          PickMultiselect(c, sel)
    \/ Submit
    \/ ClickDownload

SessionSpec == SessionInit /\ [][SessionNext]_vars

---------------------------------------------------------------------------
(* Properties. *)

RECURSIVE Restrict(_, _)
\* the elements of s at the positions in K, in the order of s
Restrict(s, K) ==
    IF s = <<>> THEN <<>>
    ELSE Restrict(SubSeq(s, 1, Len(s) - 1), K)
            \o (IF Len(s) \in K THEN <<s[Len(s)]>> ELSE <<>>)

RECURSIVE IsSubseq(_, _)
\* a is b with some elements left out
IsSubseq(a, b) ==
    IF a = <<>> THEN TRUE
    ELSE IF b = <<>> THEN FALSE
    ELSE IF Head(a) = Head(b) THEN IsSubseq(Tail(a), Tail(b))
    ELSE IsSubseq(a, Tail(b))

\* the run got as far as the filter pipeline
Filtered == steps # <<>>

Member(row, col, sel) == row[col] # NA /\ row[col][1] \in sel

\* C1 as amended: each categorical filter step keeps exactly the rows whose
\* value is in the selection, or every row when the selection holds the
\* sentinel "all"; an empty selection keeps no row.
C1_SentinelOrMember ==
    Filtered =>
        \A k \in DOMAIN CatCols :
            LET sel == selected[CatCols[k]]
                in == steps[k].data
            IN  steps[k + 1].data =
                    Restrict(in, {i \in DOMAIN in :
                                    "all" \in sel \/ Member(in[i], CatCols[k], sel)})

\* C1 as stated: a row is kept iff its value is in the selection, or the
\* selection is empty or unspecified ("all"): an empty selection is no filter.
C1_EmptyIsNoFilter ==
    Filtered =>
        \A k \in DOMAIN CatCols :
            LET sel == selected[CatCols[k]]
                in == steps[k].data
            IN  steps[k + 1].data =
                    Restrict(in, {i \in DOMAIN in :
                                    \/ sel = {}
                                    \/ "all" \in sel
                                    \/ Member(in[i], CatCols[k], sel)})

C1_Witness ==
    /\ Filtered
    /\ \E k \in DOMAIN CatCols :
          /\ selected[CatCols[k]] = {}
          /\ steps[k].data # <<>>
          /\ steps[k + 1].data = <<>>

\* the predicate of every column of the FilterSpec, on one row
InRange(row, range) ==
    /\ row["age"] # NA
    /\ ~AgeLess(row["age"][1], Age(range[1], 0))
    /\ ~AgeLess(Age(range[2], 0), row["age"][1])
Satisfies(row, range, sel) ==
    /\ InRange(row, range)
    /\ \A c \in Range(CatCols) : "all" \in sel[c] \/ Member(row, c, sel[c])

\* C2: the filtered table holds exactly the rows of the loaded table that
\* satisfy min <= age <= max, both ends included, and the predicate of every
\* categorical column, a column left at "all" restricting nothing.
C2_Conjunction ==
    Filtered =>
        bank.data = Restrict(bank_raw.data,
                             {i \in DOMAIN bank_raw.data :
                                 Satisfies(bank_raw.data[i], age_range, selected)})

C2_Witness ==
    /\ Filtered
    /\ age_range # DefaultRange(bank_raw)
    /\ "all" \notin selected["job"]
    /\ "all" \notin selected["day_of_week"]
    /\ Len(bank.data) < Len(bank_raw.data)
    /\ \E i \in DOMAIN bank.data : bank.data[i]["age"] = Cell(Age(age_range[2], 0))

\* C3: running the pipeline with the same widget values on the filtered
\* table gives the filtered table again: labels, columns and rows.
C3_Idempotent ==
    Filtered =>
        LET again == apply_pipeline(bank, age_range, selected)
        IN  again[Len(again)] = bank

C3_Witness ==
    /\ Filtered
    /\ bank.data # <<>>
    /\ Len(bank.data) < Len(bank_raw.data)
    /\ "all" \notin selected["job"]

\* C4 as stated: with the widgets at their defaults (the full age range,
\* every multiselect at "all") the filtered table is the loaded table.
C4_DefaultIsIdentity ==
    (Filtered /\ age_range = DefaultRange(bank_raw) /\ selected = DefaultSel)
        => bank = bank_raw

\* C6 as stated: on a table without rows or without the column y the
\* percentage is the empty distribution and nothing is raised.
C6_SoftFailure ==
    /\ (pc \in {"raw_perc", "filtered_perc", "done"}
            /\ (empty(bank_raw) \/ "y" \notin Range(bank_raw.columns)))
        => (error # "KeyError" /\ raw_perc = EmptyPercentual)
    /\ (pc \in {"filtered_perc", "done"}
            /\ (empty(bank) \/ "y" \notin Range(bank.columns)))
        => (error # "KeyError" /\ filtered_perc = EmptyPercentual)

\* perc lists the present values of y in df in ascending order, each with
\* 100 * count / total
IsPercentage(df, perc, total) ==
    LET ys == column(df, "y")
        vals == {ys[i][1] : i \in {j \in DOMAIN ys : ys[j] # NA}}
    IN  /\ Range(perc.index) = vals
        /\ Len(perc.index) = Cardinality(vals)
        /\ perc.columns = <<"Percentual">>
        /\ \A i, j \in DOMAIN perc.index :
              i < j => StrLess(perc.index[i], perc.index[j])
        /\ \A i \in DOMAIN perc.index :
              LET p == perc.data[i]["Percentual"][1]
                  n == Cardinality({j \in DOMAIN ys : ys[j] = <<perc.index[i]>>})
              IN  p.den > 0 /\ p.num * total = 100 * n * p.den

Present(df) == Cardinality({i \in DOMAIN df.data : df.data[i]["y"] # NA})

\* C7 as amended: of a non-empty table the distribution gives each distinct
\* present value of y 100 * count(value) / (number of rows whose y is
\* present), in ascending order of the values.
C7_PercentOfPresent ==
    pc = "done" =>
        /\ ~empty(bank_raw) => IsPercentage(bank_raw, raw_perc, Present(bank_raw))
        /\ ~empty(bank) => IsPercentage(bank, filtered_perc, Present(bank))

\* C7 as stated: the divisor is the number of rows of the table, the rows
\* whose y is missing included.
C7_PercentOfRows ==
    pc = "done" =>
        /\ ~empty(bank_raw) => IsPercentage(bank_raw, raw_perc, Len(bank_raw.data))
        /\ ~empty(bank) => IsPercentage(bank, filtered_perc, Len(bank.data))

C7_Witness ==
    /\ pc = "done"
    /\ raw_perc.index # <<>>
    /\ filtered_perc.index # <<>>
    /\ \E i \in DOMAIN bank.data : bank.data[i]["y"] = NA

\* C8: load_data calls read_csv first and read_excel only when read_csv
\* failed; it returns the table when either parsed the file, and when neither
\* did the run ends in the load error with no table at all.
C8_CsvThenExcel ==
    pc \notin {"start", "info"} =>
        /\ attempts[1] = "read_csv"
        /\ Len(attempts) > 1 <=> file.kind # "csv"
        /\ Len(attempts) > 1 => attempts = <<"read_csv", "read_excel">>
        /\ error = "LoadError" <=> file.kind \notin {"csv", "xlsx"}
        /\ error = "LoadError" =>
              /\ pc = "load_data"
              /\ bank_raw = NoFrame /\ bank = NoFrame /\ steps = <<>>
              /\ downloads = NoDownloads
        /\ error # "LoadError" =>
              bank_raw = DataFrame(RangeIndex(Len(file.data)), file.columns,
                                   file.data)

C8_Witness ==
    /\ attempts = <<"read_csv", "read_excel">>
    /\ error = "LoadError"

\* what reading an exported sheet back gives, against the table exported
SameCells(df, sheet) ==
    /\ parse_sheet(sheet).columns = df.columns
    /\ parse_sheet(sheet).data = df.data

\* C9 as stated: each exported sheet, read back, has the table's columns in
\* order and its cells, and for a distribution the values that key it.
C9_RoundTrip ==
    pc = "done" =>
        /\ SameCells(bank, downloads.bank_filtered)
        /\ SameCells(raw_perc, downloads.bank_raw_y)
        /\ downloads.bank_raw_y.labels = raw_perc.index
        /\ SameCells(filtered_perc, downloads.bank_filtered_y)
        /\ downloads.bank_filtered_y.labels = filtered_perc.index

\* the loaded table is the uploaded one, and each step of the pipeline
\* leaves rows out of the table before it without reordering
Subsequence ==
    Filtered =>
        /\ bank_raw = DataFrame(RangeIndex(Len(file.data)), file.columns, file.data)
        /\ IsSubseq(steps[1].data, bank_raw.data)
        /\ \A k \in DOMAIN CatCols : IsSubseq(steps[k + 1].data, steps[k].data)
        /\ bank = steps[Len(steps)]
        /\ IsSubseq(bank.data, bank_raw.data)

\* C5: in a session the loaded table stays the uploaded one whatever is
\* edited, submitted or downloaded, and the table after each filter step,
\* the filtered table included, is the table before it with rows left out,
\* the others in their original order.
C5_OriginalUntouched ==
    /\ []Subsequence
    /\ [][file' = file => bank_raw' = bank_raw]_vars

C5_Witness ==
    /\ Filtered
    /\ apply_filters
    /\ "all" \notin selected["job"]
    /\ Len(bank.data) > 1

\* C10: while a file stays loaded, an edit of a form widget changes the
\* pending values only; the values the script sees, and with them the
\* filtered table, the percentages and the exports, change only in a run
\* the submit button started, and then they are the pending values.
C10_TwoPhase ==
    [][file' = file =>
        /\ pending' # pending => (widgets' = widgets /\ outputs' = outputs)
        /\ widgets' # widgets => (apply_filters' /\ widgets' = pending')
        /\ outputs' # outputs => apply_filters']_vars

C10_Witness ==
    /\ apply_filters
    /\ selected # DefaultSel
    /\ pending_sel # selected
    /\ pending_range # age_range

====
